---- MODULE Spec2Model ----
(***************************************************************************)
(* Model of githooks.py: the pre-receive hook rust_hook().                 *)
(*                                                                         *)
(* The hook reads the push protocol on stdin (PreReceiveContext), resolves *)
(* every line into a Ref with its Commits by querying git, then runs a     *)
(* rustfmt check and a cargo test check on the refs named                  *)
(* refs/heads/master.  External commands are the environment: their exit   *)
(* codes are chosen nondeterministically, their outputs come from a small  *)
(* fixed repository.  Every command invocation is appended to `log`, every *)
(* line written to stdout or stderr to `stdio`.                            *)
(***************************************************************************)
EXTENDS Integers, Sequences, FiniteSets, TLC

\* ------------------------------------------------------------------ bounds
MaxLines == 2        \* input lines of one push
MaxCommits == 2      \* revisions one rev-list query reports

\* ------------------------------------------------------- input vocabulary
MASTER == "refs/heads/master"
FEATURE == "refs/heads/feature-x"
OLD_VALUE == "0000000"
NEW_VALUE == "abcdef1"

\* A line is a sequence of lexemes: whitespace characters and maximal
\* non-whitespace words.
Whitespace == {" ", "\t", "\n"}

Lines ==
    { <<OLD_VALUE, " ", NEW_VALUE, " ", MASTER, "\n">>,
      <<OLD_VALUE, " ", " ", NEW_VALUE, "\t", FEATURE, "\n">>,
      <<OLD_VALUE, " ", NEW_VALUE, "\n">>,
      <<OLD_VALUE, " ", NEW_VALUE, " ", MASTER, " ", FEATURE, "\n">> }

RECURSIVE SeqsUpTo(_, _)
SeqsUpTo(S, n) ==
    IF n = 0 THEN { <<>> }
    ELSE LET shorter == SeqsUpTo(S, n - 1)
         IN  shorter \cup { Append(s, x) : s \in { t \in shorter : Len(t) = n - 1 }, x \in S }

Inputs == SeqsUpTo(Lines, MaxLines)

\* str.split() without argument: the words of the line, whitespace dropped.
RECURSIVE split(_)
split(line) ==
    IF line = <<>> THEN <<>>
    ELSE IF Head(line) \in Whitespace THEN split(Tail(line))
    ELSE <<Head(line)>> \o split(Tail(line))

\* Mutant of UnpacksToThree: surplus fields are tolerated.
UnpacksAtLeastThree(fields) == Len(fields) >= 3

\* [old_value, new_value, ref_name] = line.split() raises ValueError unless
\* the list has exactly three elements.
UnpacksToThree(fields) == Len(fields) = 3

\* ------------------------------------------------------------- repository
\* The revisions the git queries can report, and what git answers for each.
Hashes == {"h1", "h2", "h3", "h4", "h5"}

Path(stem, suffix) == [stem |-> stem, suffix |-> suffix]

\* Output of `git diff-tree -z --name-status -r <hash>`: NUL-terminated
\* fields, status and path alternating.  h2 only deletes, h4 carries a type
\* change (T), h5 reports no path at all (a merge or an empty commit).
DiffTree(h) ==
    CASE h = "h1" -> <<"A", Path("a", ".rs"), "M", Path("c", ".rs")>>
      [] h = "h2" -> <<"D", Path("a", ".rs")>>
      [] h = "h3" -> <<"M", Path("b", ".txt")>>
      [] h = "h4" -> <<"T", Path("a", ".rs")>>
      [] OTHER    -> <<>>

\* out.rstrip("\x00").split("\x00"): the empty output splits into one
\* empty string, any other output into its fields.
splitNul(out) == IF out = <<>> THEN <<"">> ELSE out

\* Output of `git log -n1 --pretty=...`, already split on SEP.
GitLog(h) == <<"2024-01-01", h, "author", "subject", "body">>

\* Output of `git rev-list --reverse --topo-order old..new`: git lists a
\* revision of the range once.
RevLists ==
    { s \in SeqsUpTo(Hashes, MaxCommits) :
        \A i, j \in 1..Len(s) : s[i] = s[j] => i = j }

ExitCodes == {0, 1}

\* f.endswith(".rs")
endswith_rs(f) == f.suffix = ".rs"

\* ------------------------------------------------------------------ state
VARIABLES
    input,      \* the lines on stdin
    pc,         \* "init", "parse", "commits", "refs", "tests", "exited"
    lineIdx,    \* number of lines from_reader has consumed
    pending,    \* the Ref from_reader is building: name, hashes left, commits
    refs,       \* ctx.refs
    refIdx,     \* position of rust_hook's loop over ctx.refs
    commitIdx,  \* position of rust_hook's loop over ref.commits
    log,        \* every external command run and check evaluated, in order
    nextDir,    \* number of TemporaryDirectory objects created
    touch_rc,   \* exit code of the last touch command (discarded by the code)
    stdio,      \* every line written to stdout or stderr, in order
    outcome,    \* "running", "success", "denied", "fatal", "crash"
    exitCode    \* process exit status, -1 while running

vars == <<input, pc, lineIdx, pending, refs, refIdx, commitIdx, log, nextDir,
          touch_rc, stdio, outcome, exitCode>>

NoPending == [name |-> "", hashes |-> <<>>, commits |-> <<>>]

\* A log entry: the command or step, the ref (line) and commit it is run
\* for, its exit code, the directory it uses, the paths it is given, and
\* the lines of its output.
Ev(op, r, c, rc) ==
    [op |-> op, ref |-> r, commit |-> c, rc |-> rc, dir |-> 0, files |-> {}, out |-> <<>>]

Init ==
    /\ input \in Inputs
    /\ pc = "init"
    /\ lineIdx = 0
    /\ pending = NoPending
    /\ refs = <<>>
    /\ refIdx = 1
    /\ commitIdx = 1
    /\ log = <<>>
    /\ nextDir = 0
    /\ touch_rc = 0
    /\ stdio = <<>>
    /\ outcome = "running"
    /\ exitCode = -1

\* ---------------------------------------------------------------- helpers
Range(s) == { s[i] : i \in 1..Len(s) }

Last(s) == s[Len(s)]

\* A step that writes one line of text to a stream, on behalf of commit c
\* of ref r.
Pr(stream, text, r, c) == [Ev("print", r, c, 0) EXCEPT !.out = <<stream, text>>]

IsCommand(e) == e.op # "print"

\* The lines written by the steps, each stamped with the number of log
\* entries that precede it (n entries precede the first step).
RECURSIVE Stamp(_, _)
Stamp(steps, n) ==
    IF steps = <<>> THEN <<>>
    ELSE IF IsCommand(Head(steps)) THEN Stamp(Tail(steps), n + 1)
    ELSE <<[stream |-> Head(steps).out[1], text |-> Head(steps).out[2],
            ref |-> Head(steps).ref, commit |-> Head(steps).commit, at |-> n]>>
         \o Stamp(Tail(steps), n)

\* The steps of an action, in program order: commands go to the log, lines
\* of text to stdio.
Emit(steps) ==
    /\ log' = log \o SelectSeq(steps, IsCommand)
    /\ stdio' = stdio \o Stamp(steps, Len(log))

\* exit() / an uncaught exception: the process ends, nothing runs after.
Terminate(how, code, events) ==
    /\ pc' = "exited"
    /\ outcome' = how
    /\ exitCode' = code
    /\ Emit(events \o <<Ev("exit", 0, 0, code)>>)

\* Utils.bail: the message goes to stderr, then exit(exit_code).
bail(msg, r, c) == <<Pr("stderr", msg, r, c)>>

\* An uncaught exception: the interpreter writes the traceback to stderr.
traceback(r, c) == <<Pr("stderr", "Traceback", r, c)>>

\* Mutant of exec_bails: the exit code of the command is not looked at.
exec_bails_never(rc) == FALSE

\* if completed_process.returncode != 0, of Utils.exec
exec_bails(rc) == rc # 0

\* Utils.exec(cmd): the command runs (Utils.non_bail_exec), and a nonzero
\* exit code bails.
exec(cmd) ==
    IF exec_bails(cmd.rc)
      THEN <<cmd>> \o bail("Failed to push", cmd.ref, cmd.commit)
      ELSE <<cmd>>

\* Mutant of check: the label is written once the predicate has returned.
check_label_late(r, c, pred_steps, returned, ok) ==
    pred_steps
        \o <<Pr("stderr", "label", r, c)>>
        \o (IF ~returned THEN <<>>
            ELSE IF ok THEN <<Pr("stderr", "OK", r, c)>>
            ELSE <<Pr("stderr", "KO", r, c)>>)

\* Utils.check(pred, description): the label, the steps of the predicate,
\* then OK or KO when the predicate has returned.
check(r, c, pred_steps, returned, ok) ==
    <<Pr("stderr", "label", r, c)>>
        \o pred_steps
        \o (IF ~returned THEN <<>>
            ELSE IF ok THEN <<Pr("stderr", "OK", r, c)>>
            ELSE <<Pr("stderr", "KO", r, c)>>)

\* if result.returncode != 0: print(error code, cmd, stderr, stdout)
report(cmd) ==
    IF cmd.rc # 0 THEN <<Pr("stdout", "error code", cmd.ref, cmd.commit)>> ELSE <<>>

\* Utils.bail(msg, exit_code = 1)
BAIL_EXIT_CODE == 1
\* the interpreter's status for an uncaught exception
UNCAUGHT_EXIT_CODE == 1

\* ----------------------------------------------------------------- Commit
NewCommit(h, meta) ==
    [hash |-> h, _code_basedir |-> 0,
     updated_files |-> <<>>, deleted_files |-> <<>>, new_files |-> <<>>,
     datetime |-> meta[1], short_hash |-> meta[2], author |-> meta[3],
     subject |-> meta[4], body |-> meta[5]]

\* Mutant of classify: a path of unknown status is passed over.
RECURSIVE classify_skip_unknown(_, _, _)
classify_skip_unknown(c, sp, i) ==
    IF i > Len(sp) THEN [how |-> "ok", commit |-> c]
    ELSE IF i + 1 > Len(sp) THEN [how |-> "crash", commit |-> c]
    ELSE LET status == sp[i]
             path == sp[i + 1]
         IN  IF status = "A"
               THEN classify_skip_unknown([c EXCEPT !.new_files = Append(@, path)], sp, i + 2)
             ELSE IF status = "D"
               THEN classify_skip_unknown([c EXCEPT !.deleted_files = Append(@, path)], sp, i + 2)
             ELSE IF status = "M"
               THEN classify_skip_unknown([c EXCEPT !.updated_files = Append(@, path)], sp, i + 2)
             ELSE classify_skip_unknown(c, sp, i + 2)

\* The loop of Commit.from_hash over status_and_paths, from index i (1-based).
RECURSIVE classify(_, _, _)
classify(c, sp, i) ==
    IF i > Len(sp) THEN [how |-> "ok", commit |-> c]
    ELSE IF i + 1 > Len(sp) THEN [how |-> "crash", commit |-> c]
    ELSE LET status == sp[i]
             path == sp[i + 1]
         IN  IF status = "A"
               THEN classify([c EXCEPT !.new_files = Append(@, path)], sp, i + 2)
             ELSE IF status = "D"
               THEN classify([c EXCEPT !.deleted_files = Append(@, path)], sp, i + 2)
             ELSE IF status = "M"
               THEN classify([c EXCEPT !.updated_files = Append(@, path)], sp, i + 2)
             ELSE [how |-> "fatal", commit |-> c]

\* Mutant of code_basedir: the directory is not remembered, every call
\* allocates and extracts again.
code_basedir_uncached(c, r, ci, arc, tch, dirId) ==
    IF arc # 0
      THEN [ok |-> FALSE, commit |-> c, handle |-> 0, touched |-> FALSE, created |-> 1,
            events |-> <<[Ev("archive", r, ci, arc) EXCEPT !.dir = dirId]>>]
    ELSE LET touches == (c.updated_files \o c.new_files) # <<>>
         IN  [ok |-> TRUE, commit |-> [c EXCEPT !._code_basedir = dirId], handle |-> dirId,
              touched |-> touches, created |-> 1,
              events |-> <<[Ev("archive", r, ci, arc) EXCEPT !.dir = dirId]>>
                         \o (IF touches THEN <<Ev("touch", r, ci, 0)>> ELSE <<>>)
                         \o <<[Ev("code_basedir", r, ci, 0) EXCEPT !.dir = dirId]>>]

\* Mutant of code_basedir: the first call returns the new directory without
\* touching the changed files.
code_basedir_first_untouched(c, r, ci, arc, tch, dirId) ==
    IF c._code_basedir # 0
      THEN LET touches == (c.updated_files \o c.new_files) # <<>>
           IN  [ok |-> TRUE, commit |-> c, handle |-> c._code_basedir,
                touched |-> touches, created |-> 0,
                events |-> (IF touches THEN <<Ev("touch", r, ci, 0)>> ELSE <<>>)
                           \o <<[Ev("code_basedir", r, ci, 0) EXCEPT !.dir = c._code_basedir]>>]
    ELSE IF exec_bails(arc)
      THEN [ok |-> FALSE, commit |-> c, handle |-> 0, touched |-> FALSE, created |-> 1,
            events |-> exec([Ev("archive", r, ci, arc) EXCEPT !.dir = dirId])]
    ELSE [ok |-> TRUE, commit |-> [c EXCEPT !._code_basedir = dirId], handle |-> dirId,
          touched |-> FALSE, created |-> 1,
          events |-> exec([Ev("archive", r, ci, arc) EXCEPT !.dir = dirId])
                     \o <<[Ev("code_basedir", r, ci, 0) EXCEPT !.dir = dirId]>>]

\* Mutant of code_basedir: the Commit is marked materialized before the tree
\* is exported.
code_basedir_marked_first(c, r, ci, arc, tch, dirId) ==
    IF c._code_basedir # 0
      THEN LET touches == (c.updated_files \o c.new_files) # <<>>
           IN  [ok |-> TRUE, commit |-> c, handle |-> c._code_basedir,
                touched |-> touches, created |-> 0,
                events |-> (IF touches THEN <<Ev("touch", r, ci, 0)>> ELSE <<>>)
                           \o <<[Ev("code_basedir", r, ci, 0) EXCEPT !.dir = c._code_basedir]>>]
    ELSE IF exec_bails(arc)
      THEN [ok |-> FALSE, commit |-> [c EXCEPT !._code_basedir = dirId], handle |-> 0,
            touched |-> FALSE, created |-> 1,
            events |-> exec([Ev("archive", r, ci, arc) EXCEPT !.dir = dirId])]
    ELSE LET touches == (c.updated_files \o c.new_files) # <<>>
         IN  [ok |-> TRUE, commit |-> [c EXCEPT !._code_basedir = dirId], handle |-> dirId,
              touched |-> touches, created |-> 1,
              events |-> exec([Ev("archive", r, ci, arc) EXCEPT !.dir = dirId])
                         \o (IF touches THEN <<Ev("touch", r, ci, 0)>> ELSE <<>>)
                         \o <<[Ev("code_basedir", r, ci, 0) EXCEPT !.dir = dirId]>>]

\* Commit.code_basedir() of commit c (commit ci of ref r).  arc is the exit
\* code of the tree export, tch of the touch, dirId the next fresh directory.
RECURSIVE code_basedir(_, _, _, _, _, _)
code_basedir(c, r, ci, arc, tch, dirId) ==
    IF c._code_basedir # 0
      THEN LET touches == (c.updated_files \o c.new_files) # <<>>
           IN  [ok |-> TRUE, commit |-> c, handle |-> c._code_basedir,
                touched |-> touches, created |-> 0,
                events |-> (IF touches THEN <<Ev("touch", r, ci, 0)>> ELSE <<>>)
                           \o <<[Ev("code_basedir", r, ci, 0) EXCEPT !.dir = c._code_basedir]>>]
    ELSE IF exec_bails(arc)
      THEN [ok |-> FALSE, commit |-> c, handle |-> 0, touched |-> FALSE, created |-> 1,
            events |-> exec([Ev("archive", r, ci, arc) EXCEPT !.dir = dirId])]
    ELSE LET again == code_basedir([c EXCEPT !._code_basedir = dirId], r, ci, arc, tch, dirId + 1)
         IN  [again EXCEPT !.created = 1,
                           !.events = exec([Ev("archive", r, ci, arc) EXCEPT !.dir = dirId]) \o @]

Ref(name, commits) == [name |-> name, commits |-> commits]

\* ------------------------------------------------------------- the module
\* Module level: HOOK_BUILD_DIR is created, then main() enters rust_hook().
ModuleInit ==
    /\ pc = "init"
    /\ \E rc \in ExitCodes :
         IF exec_bails(rc)
           THEN /\ Terminate("fatal", BAIL_EXIT_CODE, exec(Ev("mkdir", 0, 0, rc)))
           ELSE /\ pc' = "parse"
                /\ Emit(exec(Ev("mkdir", 0, 0, rc))
                          \o <<Pr("stderr", "Entering pre-receive hook", 0, 0)>>)
                /\ UNCHANGED <<outcome, exitCode>>
    /\ UNCHANGED <<input, lineIdx, pending, refs, refIdx, commitIdx, nextDir, touch_rc>>

\* PreReceiveContext.from_reader: one turn of `for line in r` up to the
\* revision-range query.
from_reader_line ==
    /\ pc = "parse"
    /\ lineIdx < Len(input)
    /\ LET fields == split(input[lineIdx + 1])
           n == lineIdx + 1
       IN  IF ~UnpacksToThree(fields)
             THEN /\ Terminate("crash", UNCAUGHT_EXIT_CODE,
                               <<Ev("line", n, 0, 0)>> \o traceback(n, 0))
                  /\ UNCHANGED <<lineIdx, pending, refs>>
             ELSE \E rc \in ExitCodes, hashes \in RevLists :
                    IF exec_bails(rc)
                      THEN /\ Terminate("fatal", BAIL_EXIT_CODE,
                                        <<Ev("line", n, 0, 0)>> \o exec(Ev("rev-list", n, 0, rc)))
                           /\ UNCHANGED <<lineIdx, pending, refs>>
                      ELSE /\ lineIdx' = n
                           /\ Emit(<<Ev("line", n, 0, 0)>>
                                     \o exec([Ev("rev-list", n, 0, rc) EXCEPT !.out = hashes]))
                           /\ IF hashes = <<>>
                                THEN /\ refs' = Append(refs, Ref(fields[3], <<>>))
                                     /\ UNCHANGED <<pending, pc>>
                                ELSE /\ pending' = [name |-> fields[3], hashes |-> hashes,
                                                    commits |-> <<>>]
                                     /\ pc' = "commits"
                                     /\ UNCHANGED refs
                           /\ UNCHANGED <<outcome, exitCode>>
    /\ UNCHANGED <<input, refIdx, commitIdx, nextDir, touch_rc>>

\* Mutant of collect: the list is built newest first.
collect_reversed(commits, commit) == <<commit>> \o commits

\* [Commit.from_hash(c_hash) for c_hash in commit_hashes]: the list grows
\* at its end, one Commit per hash.
collect(commits, commit) == Append(commits, commit)

\* Commit.from_hash for the next hash of the list comprehension; the Ref is
\* appended to ctx.refs once the last Commit is built.
from_hash ==
    /\ pc = "commits"
    /\ LET h == Head(pending.hashes)
           ci == Len(pending.commits) + 1
       IN  \E log_rc \in ExitCodes, diff_rc \in ExitCodes :
             IF exec_bails(log_rc)
               THEN /\ Terminate("fatal", BAIL_EXIT_CODE, exec(Ev("log", lineIdx, ci, log_rc)))
                    /\ UNCHANGED <<pending, refs>>
             ELSE IF Len(GitLog(h)) # 5
               THEN /\ Terminate("crash", UNCAUGHT_EXIT_CODE,
                                 exec(Ev("log", lineIdx, ci, log_rc)) \o traceback(lineIdx, ci))
                    /\ UNCHANGED <<pending, refs>>
             ELSE IF exec_bails(diff_rc)
               THEN /\ Terminate("fatal", BAIL_EXIT_CODE,
                                 exec(Ev("log", lineIdx, ci, log_rc))
                                     \o exec(Ev("diff-tree", lineIdx, ci, diff_rc)))
                    /\ UNCHANGED <<pending, refs>>
             ELSE LET res == classify(NewCommit(h, GitLog(h)), splitNul(DiffTree(h)), 1)
                      events == exec(Ev("log", lineIdx, ci, log_rc))
                                    \o exec(Ev("diff-tree", lineIdx, ci, diff_rc))
                      commits == collect(pending.commits, res.commit)
                  IN  IF res.how # "ok"
                        THEN /\ IF res.how = "fatal"
                                  THEN Terminate("fatal", BAIL_EXIT_CODE,
                                                 events \o bail("unexpected status", lineIdx, ci))
                                  ELSE Terminate("crash", UNCAUGHT_EXIT_CODE,
                                                 events \o traceback(lineIdx, ci))
                             /\ UNCHANGED <<pending, refs>>
                        ELSE /\ Emit(events)
                             /\ IF Len(pending.hashes) = 1
                                  THEN /\ refs' = Append(refs, Ref(pending.name, commits))
                                       /\ pending' = NoPending
                                       /\ pc' = "parse"
                                  ELSE /\ pending' = [pending EXCEPT !.hashes = Tail(@),
                                                                     !.commits = commits]
                                       /\ UNCHANGED <<refs, pc>>
                             /\ UNCHANGED <<outcome, exitCode>>
    /\ UNCHANGED <<input, lineIdx, refIdx, commitIdx, nextDir, touch_rc>>

\* from_reader returns ctx once the reader is exhausted.
from_reader_return ==
    /\ pc = "parse"
    /\ lineIdx = Len(input)
    /\ pc' = "refs"
    /\ UNCHANGED <<input, lineIdx, pending, refs, refIdx, commitIdx, log, nextDir,
                   touch_rc, stdio, outcome, exitCode>>

\* -------------------------------------------------------------- rust_hook
\* Mutant of fmt_step: the deleted paths are not subtracted.
fmt_step_keep_deleted(files, commit) ==
    files \cup Range(commit.updated_files \o commit.new_files)

\* One turn of the loop of check_fmt_on_lst_commit over ref.commits.
fmt_step(files, commit) ==
    (files \cup Range(commit.updated_files \o commit.new_files))
        \ Range(commit.deleted_files)

\* files_to_fmt after the loop over ref.commits, before the .rs filter.
RECURSIVE files_to_fmt(_)
files_to_fmt(commits) ==
    IF commits = <<>> THEN {}
    ELSE fmt_step(files_to_fmt(SubSeq(commits, 1, Len(commits) - 1)), Last(commits))

\* Mutant of rs_files: the paths are not filtered.
rs_files_unfiltered(files) == files

\* [f for f in files_to_fmt if f.endswith(".rs")]
rs_files(files) == { f \in files : endswith_rs(f) }

\* Mutant of fmt_ok: the formatter's exit code is ignored.
fmt_ok_always(rc) == TRUE

\* return result.returncode == 0, of check_fmt_on_lst_commit
fmt_ok(rc) == rc = 0

\* Mutant of tests_ok: the test command's exit code is ignored.
tests_ok_always(rc) == TRUE

\* return result.returncode == 0, of run_tests
tests_ok(rc) == rc = 0

TARGET_REF == MASTER

\* Mutant of matches: every ref is checked.
matches_any(ref) == TRUE

\* if ref.name == "refs/heads/master"
matches(ref) == ref.name = TARGET_REF

\* A ref the loop of rust_hook passes over.
rust_hook_skip_ref ==
    /\ pc = "refs"
    /\ refIdx <= Len(refs)
    /\ ~matches(refs[refIdx])
    /\ refIdx' = refIdx + 1
    /\ UNCHANGED <<input, pc, lineIdx, pending, refs, commitIdx, log, nextDir,
                   touch_rc, stdio, outcome, exitCode>>

\* A matching ref: Utils.check(check_fmt_on_lst_commit(ref)), and the bail
\* that follows a KO.
check_fmt_on_lst_commit ==
    /\ pc = "refs"
    /\ refIdx <= Len(refs)
    /\ matches(refs[refIdx])
    /\ LET ref == refs[refIdx]
           enter == <<Ev("ref", refIdx, 0, 0),
                      Pr("stderr", "Running checks on", refIdx, 0),
                      Pr("stderr", "rustfmt --check", refIdx, 0)>>
           tests == <<Pr("stderr", "cargo test --release", refIdx, 0)>>
       IN  IF ref.commits = <<>>
             THEN \* ref.commits[-1] raises IndexError
                  /\ Terminate("crash", UNCAUGHT_EXIT_CODE, enter \o traceback(refIdx, 0))
                  /\ UNCHANGED <<refs, commitIdx, nextDir, touch_rc>>
           ELSE LET files == files_to_fmt(ref.commits)
                    to_fmt == rs_files(files)
                    called == [Ev("check_fmt", refIdx, 0, 0) EXCEPT !.files = files]
                    lst == Len(ref.commits)
                IN  IF to_fmt = {}
                      THEN /\ Emit(enter \o check(refIdx, lst, <<called>>, TRUE, TRUE) \o tests)
                           /\ pc' = "tests"
                           /\ commitIdx' = 1
                           /\ UNCHANGED <<refs, nextDir, touch_rc, outcome, exitCode>>
                    ELSE \E arc \in ExitCodes, tch \in ExitCodes, rc \in ExitCodes :
                           LET dir == code_basedir(ref.commits[lst], refIdx, lst, arc, tch, nextDir + 1)
                               cmd == [Ev("rustfmt", refIdx, lst, rc)
                                         EXCEPT !.files = to_fmt, !.dir = dir.handle]
                               pred == <<called>> \o dir.events \o <<cmd>> \o report(cmd)
                           IN  /\ nextDir' = nextDir + dir.created
                               /\ touch_rc' = IF dir.touched THEN tch ELSE touch_rc
                               /\ refs' = [refs EXCEPT ![refIdx].commits[lst] = dir.commit]
                               /\ IF ~dir.ok
                                    THEN /\ Terminate("fatal", BAIL_EXIT_CODE,
                                                      enter \o check(refIdx, lst,
                                                                     <<called>> \o dir.events,
                                                                     FALSE, FALSE))
                                         /\ UNCHANGED commitIdx
                                  ELSE IF ~fmt_ok(rc)
                                    THEN /\ Terminate("denied", BAIL_EXIT_CODE,
                                                      enter \o check(refIdx, lst, pred, TRUE, FALSE)
                                                            \o bail("Push denied", refIdx, lst))
                                         /\ UNCHANGED commitIdx
                                  ELSE /\ Emit(enter \o check(refIdx, lst, pred, TRUE, TRUE) \o tests)
                                       /\ pc' = "tests"
                                       /\ commitIdx' = 1
                                       /\ UNCHANGED <<outcome, exitCode>>
    /\ UNCHANGED <<input, lineIdx, pending, refIdx>>

\* Mutant of next_commit: the loop stays on the same commit.
next_commit_same(i) == i

\* `for commit in ref.commits` moves to the following commit.
next_commit(i) == i + 1

\* One turn of `for commit in ref.commits`: Utils.check(run_tests(commit)),
\* and the bail that follows a KO.
run_tests ==
    /\ pc = "tests"
    /\ commitIdx <= Len(refs[refIdx].commits)
    /\ \E arc \in ExitCodes, tch \in ExitCodes, mk \in ExitCodes, rc \in ExitCodes :
         LET ref == refs[refIdx]
             dir == code_basedir(ref.commits[commitIdx], refIdx, commitIdx, arc, tch, nextDir + 1)
             mkdir == exec(Ev("mkdir", refIdx, commitIdx, mk))
             cmd == [Ev("cargo test", refIdx, commitIdx, rc) EXCEPT !.dir = dir.handle]
             pred == dir.events \o mkdir \o <<cmd>> \o report(cmd)
         IN  /\ nextDir' = nextDir + dir.created
             /\ touch_rc' = IF dir.touched THEN tch ELSE touch_rc
             /\ refs' = [refs EXCEPT ![refIdx].commits[commitIdx] = dir.commit]
             /\ IF ~dir.ok
                  THEN /\ Terminate("fatal", BAIL_EXIT_CODE,
                                    check(refIdx, commitIdx, dir.events, FALSE, FALSE))
                       /\ UNCHANGED <<refIdx, commitIdx>>
                ELSE IF exec_bails(mk)
                  THEN /\ Terminate("fatal", BAIL_EXIT_CODE,
                                    check(refIdx, commitIdx, dir.events \o mkdir, FALSE, FALSE))
                       /\ UNCHANGED <<refIdx, commitIdx>>
                ELSE IF ~tests_ok(rc)
                  THEN /\ Terminate("denied", BAIL_EXIT_CODE,
                                    check(refIdx, commitIdx, pred, TRUE, FALSE)
                                        \o bail("Push denied", refIdx, commitIdx))
                       /\ UNCHANGED <<refIdx, commitIdx>>
                ELSE /\ Emit(check(refIdx, commitIdx, pred, TRUE, TRUE))
                     /\ IF next_commit(commitIdx) > Len(ref.commits)
                          THEN /\ pc' = "refs"
                               /\ refIdx' = refIdx + 1
                               /\ commitIdx' = 1
                          ELSE /\ commitIdx' = next_commit(commitIdx)
                               /\ UNCHANGED <<pc, refIdx>>
                     /\ UNCHANGED <<outcome, exitCode>>
    /\ UNCHANGED <<input, lineIdx, pending>>

\* exit(1) of main(), reached when rust_hook() returns
MAIN_EXIT_CODE == 1

\* The loop over ctx.refs is over: rust_hook returns to main().
main_exit ==
    /\ pc = "refs"
    /\ refIdx > Len(refs)
    /\ Terminate("success", MAIN_EXIT_CODE,
                 <<Pr("stderr", "Pre-receive hook success", 0, 0)>>)
    /\ UNCHANGED <<input, lineIdx, pending, refs, refIdx, commitIdx, nextDir, touch_rc>>

Next ==
    \/ ModuleInit
    \/ from_reader_line
    \/ from_hash
    \/ from_reader_return
    \/ rust_hook_skip_ref
    \/ check_fmt_on_lst_commit
    \/ run_tests
    \/ main_exit

Spec == Init /\ [][Next]_vars

\* Every external command returns, so the single thread of the hook always
\* takes its next step.
FairSpec == Spec /\ WF_vars(Next)

TypeOK ==
    /\ pc \in {"init", "parse", "commits", "refs", "tests", "exited"}
    /\ outcome \in {"running", "success", "denied", "fatal", "crash"}
    /\ exitCode \in {-1, 0, 1}
    /\ (pc = "exited") = (exitCode # -1)

\* ----------------------------------------------------------------- claims
LogIdx == 1..Len(log)

IsMasterRef(r) == r \in 1..Len(refs) /\ refs[r].name = "refs/heads/master"

\* The positions of the log at which the test command of ref r was run.
TestsOf(r) == { i \in LogIdx : log[i].op = "cargo test" /\ log[i].ref = r }

CheckOps == {"check_fmt", "rustfmt", "cargo test", "archive", "touch", "code_basedir"}

\* C1: for a matching ref the test command runs on the ref's commits in
\* list order, oldest first: the k-th test run of the ref is on its k-th
\* commit, and every test run of the ref but the last one exited with 0, so
\* that no test runs for the ref after a failing one.
C1_TestsInOrderUntilFailure ==
    \A r \in 1..Len(refs) :
        IsMasterRef(r) =>
            \A i \in TestsOf(r) :
                /\ log[i].commit = Cardinality({ j \in TestsOf(r) : j <= i })
                /\ log[i].commit <= Len(refs[r].commits)
                /\ (log[i].rc # 0 => \A j \in TestsOf(r) : j <= i)

\* C1 witness: the test of the first of two commits failed and the run is over.
C1_Witness ==
    /\ pc = "exited"
    /\ \E r \in 1..Len(refs) :
         /\ IsMasterRef(r)
         /\ Len(refs[r].commits) = 2
         /\ \E i \in TestsOf(r) : log[i].commit = 1 /\ log[i].rc # 0

\* C2: for a matching ref the format check is evaluated before any test of
\* that ref, and a failing format check denies the push (the process is
\* over with a nonzero status) with no test run for any commit of the ref.
C2_FormatBeforeTests ==
    /\ \A i \in LogIdx :
         log[i].op = "cargo test" =>
             \E j \in 1..(i - 1) : log[j].op = "check_fmt" /\ log[j].ref = log[i].ref
    /\ \A i \in LogIdx :
         (log[i].op = "rustfmt" /\ log[i].rc # 0) =>
             /\ pc = "exited"
             /\ outcome = "denied"
             /\ exitCode # 0
             /\ TestsOf(log[i].ref) = {}

\* C2 witness: the formatter failed on a ref that has commits to test.
C2_Witness ==
    \E i \in LogIdx :
        /\ log[i].op = "rustfmt"
        /\ log[i].rc # 0
        /\ refs[log[i].ref].commits # <<>>
        /\ pc = "exited"

NoCheckFailed == \A i \in LogIdx : log[i].op \in {"rustfmt", "cargo test"} => log[i].rc = 0

NoFatalError == outcome \notin {"fatal", "crash"}

\* C3: when every check of every matching ref passed and no fatal error
\* occurred the process ends with status 0, and it ends with a nonzero
\* status only when a check failed or a fatal error occurred.
C3_ExitZeroWhenAllPass ==
    pc = "exited" => ((NoCheckFailed /\ NoFatalError) <=> exitCode = 0)

\* C4: for a ref whose name is not refs/heads/master no format command, no
\* test command, no tree export and no touch is ever run, and none of its
\* commits is ever materialized.
C4_NonMatchingUntouched ==
    /\ \A i \in LogIdx :
         log[i].op \in CheckOps \cup {"ref"} => refs[log[i].ref].name = "refs/heads/master"
    /\ \A r \in 1..Len(refs) :
         refs[r].name # "refs/heads/master" =>
             \A c \in 1..Len(refs[r].commits) : refs[r].commits[c]._code_basedir = 0

\* C4 witness: the run succeeded on a push of a checked master ref and of
\* another ref that brings commits.
C4_Witness ==
    /\ pc = "exited"
    /\ outcome = "success"
    /\ \E r \in 1..Len(refs) : refs[r].name # "refs/heads/master" /\ refs[r].commits # <<>>
    /\ \E i \in LogIdx : log[i].op = "cargo test"

\* The line (ref) on whose behalf the process was working when it ended
\* abnormally: the ref of the last entry logged before the exit.
Blamed == log[Len(log) - 1].ref

IsNonMatchingLine(n) ==
    /\ n \in 1..Len(input)
    /\ Len(split(input[n])) = 3
    /\ split(input[n])[3] # "refs/heads/master"

\* C5: a non-matching ref is never blocking: whenever the run is aborted or
\* the push denied, it is not because of something done on behalf of a
\* non-matching ref (resolving its commit range and commit metadata included).
C5_NonMatchingNeverBlocks ==
    (pc = "exited" /\ outcome # "success") => ~IsNonMatchingLine(Blamed)

BasedirReturns(r, c) ==
    { i \in LogIdx : log[i].op = "code_basedir" /\ log[i].ref = r /\ log[i].commit = c }

Archives(r, c) ==
    { i \in LogIdx : log[i].op = "archive" /\ log[i].ref = r /\ log[i].commit = c }

\* C6: code_basedir() is idempotent: all the calls on one Commit return the
\* same directory handle, which is the one the Commit holds, and the tree
\* export runs at most once for that Commit.
C6_BasedirIdempotent ==
    \A r \in 1..Len(refs) : \A c \in 1..Len(refs[r].commits) :
        /\ Cardinality(Archives(r, c)) <= 1
        /\ \A i, j \in BasedirReturns(r, c) : log[i].dir = log[j].dir
        /\ \A i \in BasedirReturns(r, c) :
             log[i].dir # 0 /\ log[i].dir = refs[r].commits[c]._code_basedir

\* C6 witness: code_basedir() returned twice for one Commit (the format
\* check, then the test check, of a ref's last commit).
C6_Witness ==
    \E r \in 1..Len(refs) : \E c \in 1..Len(refs[r].commits) :
        Cardinality(BasedirReturns(r, c)) = 2

FilesOf(commit) == Range(commit.updated_files \o commit.new_files)

\* C7 as stated: the path set of the format check holds no path that any
\* commit of the ref deletes, wherever that commit stands in the ref.
C7_DeletionDominates ==
    \A i \in LogIdx :
        log[i].op = "check_fmt" =>
            \A c \in 1..Len(refs[log[i].ref].commits) :
                Range(refs[log[i].ref].commits[c].deleted_files) \cap log[i].files = {}

\* C7 amended: the path set of the format check holds no path that a commit
\* of the ref deletes, unless a later commit of the ref adds or modifies
\* that path again.
C7_DeletionDominatesEarlier ==
    \A i \in LogIdx :
        log[i].op = "check_fmt" =>
            LET commits == refs[log[i].ref].commits
            IN  \A c \in 1..Len(commits) :
                    \A p \in Range(commits[c].deleted_files) \cap log[i].files :
                        \E d \in (c + 1)..Len(commits) : p \in FilesOf(commits[d])

\* C7 witness: a path added by the first commit and deleted by the second
\* one is not in the computed set.
C7_Witness ==
    \E i \in LogIdx :
        /\ log[i].op = "check_fmt"
        /\ LET commits == refs[log[i].ref].commits
           IN  /\ Len(commits) = 2
               /\ \E p \in FilesOf(commits[1]) \cap Range(commits[2].deleted_files) :
                    p \notin log[i].files

\* C8: when no path of the format check's set ends in .rs the check passes
\* (the hook goes on to the tests of the ref), the formatter is not run for
\* the ref, and no commit of the ref has been materialized by the check.
C8_EmptySetPasses ==
    \A i \in LogIdx :
        (log[i].op = "check_fmt" /\ { f \in log[i].files : f.suffix = ".rs" } = {}) =>
            /\ \A j \in LogIdx : log[j].op = "rustfmt" => log[j].ref # log[i].ref
            /\ i = Len(log) =>
                 /\ pc = "tests"
                 /\ refIdx = log[i].ref
                 /\ commitIdx = 1
                 /\ \A c \in 1..Len(refs[refIdx].commits) :
                        refs[refIdx].commits[c]._code_basedir = 0

\* C8 witness: the format check has just returned on a set of paths none of
\* which ends in .rs.
C8_Witness ==
    /\ log # <<>>
    /\ Last(log).op = "check_fmt"
    /\ Last(log).files # {}
    /\ \A f \in Last(log).files : f.suffix # ".rs"

Malformed == { n \in 1..Len(input) : Len(split(input[n])) # 3 }

\* C9: when a line of the input, at any position, does not split into three
\* fields, no check, command of a check or tree export is ever run, the
\* hook never reaches the loop over the refs, and the run ends with a
\* nonzero status.
C9_MalformedLineAborts ==
    Malformed # {} =>
        /\ \A i \in LogIdx : log[i].op \notin CheckOps \cup {"ref"}
        /\ pc \notin {"refs", "tests"}
        /\ pc = "exited" => (exitCode # 0 /\ outcome \in {"crash", "fatal"})

\* C9 witness: the run crashed on a malformed second line, after the
\* commits of the well-formed first line were resolved.
C9_Witness ==
    /\ pc = "exited"
    /\ outcome = "crash"
    /\ Malformed = {2}
    /\ \E i \in LogIdx : log[i].op = "diff-tree" /\ log[i].ref = 1
    /\ Blamed = 2

RECURSIVE HashesOf(_)
HashesOf(commits) ==
    IF commits = <<>> THEN <<>> ELSE <<Head(commits).hash>> \o HashesOf(Tail(commits))

\* C10: from_reader appends one Ref per line read, in input order, named by
\* the third field of its line, whose commits carry the hashes of the
\* line's rev-list result in the same order; once it has returned there is
\* one Ref per input line.
C10_OneRefPerLine ==
    /\ Len(refs) <= lineIdx
    /\ pc \in {"refs", "tests"} => Len(refs) = Len(input)
    /\ \A n \in 1..Len(refs) :
         /\ refs[n].name = split(input[n])[3]
         /\ \E i \in LogIdx :
              /\ log[i].op = "rev-list"
              /\ log[i].ref = n
              /\ HashesOf(refs[n].commits) = log[i].out

\* C10 witness: from_reader returned two Refs, one of them with two
\* different commits.
C10_Witness ==
    /\ pc = "refs"
    /\ Len(refs) = 2
    /\ \E n \in 1..2 :
         /\ Len(refs[n].commits) = 2
         /\ refs[n].commits[1].hash # refs[n].commits[2].hash

StdioIdx == 1..Len(stdio)

FailedChecks == { i \in LogIdx : log[i].op \in {"rustfmt", "cargo test"} /\ log[i].rc # 0 }

\* The lines of the given text written for commit c of ref r once i log
\* entries were made.
Written(text, r, c, i) ==
    { k \in StdioIdx : /\ stdio[k].text = text
                       /\ stdio[k].ref = r
                       /\ stdio[k].commit = c
                       /\ stdio[k].at >= i }

\* C11: when a format or test command exits nonzero its failure detail is
\* written to stderr before the process exits with a nonzero status, and
\* nothing the run writes goes to another stream than stderr.
C11_FailureDetailOnStderr ==
    /\ \A k \in StdioIdx : stdio[k].stream = "stderr"
    /\ \A i \in FailedChecks :
         /\ pc = "exited"
         /\ exitCode # 0
         /\ \E k \in Written("error code", log[i].ref, log[i].commit, i) :
                stdio[k].stream = "stderr"

ExecOps == {"mkdir", "rev-list", "log", "diff-tree", "archive"}

\* C12: a command run by Utils.exec that exits nonzero ends the process: the
\* message is written to stderr, the exit with a nonzero status is the next
\* and last entry of the log, so no command runs after it and no output is
\* returned.  A command run by Utils.non_bail_exec alone hands its exit code
\* back: a touch is followed by the return of code_basedir, a failing
\* formatter or test command by the KO of Utils.check.
C12_DualCommandContract ==
    /\ \A i \in LogIdx :
         (log[i].op \in ExecOps /\ log[i].rc # 0) =>
             /\ i = Len(log) - 1
             /\ log[i + 1].op = "exit"
             /\ log[i + 1].rc # 0
             /\ pc = "exited"
             /\ exitCode # 0
             /\ \E k \in Written("Failed to push", log[i].ref, log[i].commit, i) :
                    stdio[k].stream = "stderr" /\ stdio[k].at = i
    /\ \A i \in LogIdx : log[i].op = "exit" => i = Len(log)
    /\ \A i \in LogIdx :
         log[i].op = "touch" =>
             /\ i < Len(log)
             /\ log[i + 1].op = "code_basedir"
             /\ \A k \in Written("Failed to push", log[i].ref, log[i].commit, i) :
                    stdio[k].at # i
    /\ \A i \in FailedChecks :
         /\ Written("KO", log[i].ref, log[i].commit, i) # {}
         /\ \A k \in Written("Failed to push", log[i].ref, log[i].commit, i) :
                stdio[k].at # i

\* C12 witness: a touch has failed and the run went on, until a command run
\* by Utils.exec failed.
C12_Witness ==
    /\ pc = "exited"
    /\ outcome = "fatal"
    /\ touch_rc # 0
    /\ \E i \in LogIdx : log[i].op = "touch"
    /\ \E i \in LogIdx : log[i].op \in ExecOps /\ log[i].rc # 0 /\ log[i].ref > 0

\* The paths that the status query output sp reports with status st, in order.
RECURSIVE PathsWith(_, _)
PathsWith(sp, st) ==
    IF Len(sp) < 2 THEN <<>>
    ELSE (IF sp[1] = st THEN <<sp[2]>> ELSE <<>>) \o PathsWith(SubSeq(sp, 3, Len(sp)), st)

HasUnknownStatus(sp) ==
    \E i \in 1..Len(sp) : i % 2 = 1 /\ sp[i] \notin {"A", "D", "M"}

\* Every Commit that Commit.from_hash has returned.
RECURSIVE CommitsOfRefs(_)
CommitsOfRefs(rs) ==
    IF rs = <<>> THEN {} ELSE Range(Head(rs).commits) \cup CommitsOfRefs(Tail(rs))

BuiltCommits == CommitsOfRefs(refs) \cup Range(pending.commits)

\* C13: every path the status query reports for a commit is in exactly one
\* of new_files (A), deleted_files (D) and updated_files (M) of the Commit;
\* no Commit is ever built from an output with another status: that output
\* ends the process during parsing with a nonzero status, before any check.
C13_StatusClassification ==
    /\ \A c \in BuiltCommits :
         LET sp == DiffTree(c.hash)
         IN  /\ c.new_files = PathsWith(sp, "A")
             /\ c.deleted_files = PathsWith(sp, "D")
             /\ c.updated_files = PathsWith(sp, "M")
             /\ 2 * (Len(c.new_files) + Len(c.deleted_files) + Len(c.updated_files)) = Len(sp)
             /\ Range(c.new_files) \cap Range(c.deleted_files) = {}
             /\ Range(c.new_files) \cap Range(c.updated_files) = {}
             /\ Range(c.deleted_files) \cap Range(c.updated_files) = {}
    /\ \A i \in LogIdx :
         ( /\ log[i].op = "diff-tree"
           /\ log[i].rc = 0
           /\ pending.hashes # <<>>
           /\ log[i].ref = lineIdx
           /\ log[i].commit = Len(pending.commits) + 1
           /\ HasUnknownStatus(DiffTree(Head(pending.hashes))) ) =>
             /\ pc = "exited"
             /\ outcome = "fatal"
             /\ exitCode # 0
             /\ \A j \in LogIdx : log[j].op \notin CheckOps \cup {"ref"}

\* C13 witness: the second commit of a line has a path of unknown status,
\* after a first commit that was classified, and the process has ended.
C13_Witness ==
    /\ pc = "exited"
    /\ Len(pending.commits) = 1
    /\ pending.commits[1].new_files # <<>>
    /\ pending.commits[1].updated_files # <<>>
    /\ Len(pending.hashes) = 1
    /\ HasUnknownStatus(DiffTree(Head(pending.hashes)))
    /\ log[Len(log) - 1].op = "diff-tree"
    /\ log[Len(log) - 1].rc = 0

\* C14: once a format or test command has failed for one ref the push is
\* denied at once: nothing but the exit follows in the log, so no format
\* command, test command or tree export is run for a later ref, and no
\* commit of a later ref is materialized.
C14_FirstFailureDenies ==
    \A i \in FailedChecks :
        /\ pc = "exited"
        /\ outcome = "denied"
        /\ \A j \in LogIdx : j > i => log[j].op = "exit"
        /\ \A j \in LogIdx : log[j].op \in CheckOps \cup {"ref"} => log[j].ref <= log[i].ref
        /\ \A r \in 1..Len(refs) :
             r > log[i].ref =>
                 \A c \in 1..Len(refs[r].commits) : refs[r].commits[c]._code_basedir = 0

\* C14 witness: two matching refs with commits were pushed and a check of
\* the first one failed.
C14_Witness ==
    /\ Len(refs) = 2
    /\ \A r \in 1..2 : refs[r].name = "refs/heads/master" /\ refs[r].commits # <<>>
    /\ \E i \in FailedChecks : log[i].ref = 1

\* C15: every call of code_basedir() that returns, the first one included,
\* runs the touch right before it returns and after the tree export when
\* updated_files + new_files is not empty, and runs no touch when both
\* lists are empty; a touch, whatever its exit code, is followed by the
\* return of the call and never by the end of the process.
C15_TouchOnEveryCall ==
    /\ \A i \in LogIdx :
         log[i].op = "code_basedir" =>
             LET c == refs[log[i].ref].commits[log[i].commit]
             IN  IF c.updated_files \o c.new_files # <<>>
                   THEN /\ i > 1
                        /\ log[i - 1].op = "touch"
                        /\ log[i - 1].ref = log[i].ref
                        /\ log[i - 1].commit = log[i].commit
                        /\ \A j \in Archives(log[i].ref, log[i].commit) : j < i - 1
                   ELSE i > 1 => log[i - 1].op # "touch"
    /\ \A i \in LogIdx :
         log[i].op = "touch" =>
             /\ i < Len(log)
             /\ log[i + 1].op = "code_basedir"
             /\ log[i + 1].ref = log[i].ref
             /\ log[i + 1].commit = log[i].commit

\* C15 witness: the run went through although the last touch failed; a first
\* call exported, touched and returned, and a call on a commit without
\* updated or new files returned without a touch.
C15_Witness ==
    /\ outcome = "success"
    /\ touch_rc # 0
    /\ \E i \in LogIdx :
         /\ i > 2
         /\ log[i].op = "code_basedir"
         /\ log[i - 1].op = "touch"
         /\ log[i - 2].op = "archive"
    /\ \E i \in LogIdx :
         /\ i > 1
         /\ log[i].op = "code_basedir"
         /\ log[i - 1].op = "archive"

Labels == { k \in StdioIdx : stdio[k].text = "label" }

Verdicts == { k \in StdioIdx : stdio[k].text \in {"OK", "KO"} }

\* The last label written before line k of stdio, 0 when there is none.
PrevLabel(k) ==
    LET before == { j \in Labels : j < k }
    IN  IF before = {} THEN 0 ELSE CHOOSE j \in before : \A j2 \in before : j2 <= j

\* The evaluations of a check predicate logged after line l and before line v.
Evaluations(l, v) ==
    { i \in LogIdx : /\ i > stdio[l].at
                     /\ i <= stdio[v].at
                     /\ log[i].op \in {"check_fmt", "cargo test"} }

\* C16: Utils.check writes the label, then evaluates the predicate once,
\* then writes one of OK and KO: every OK or KO follows the label of its
\* check with only the failure detail of the predicate in between, one
\* evaluation of the predicate lies between the two, OK is written exactly
\* when no command of the predicate failed, and a KO is what the caller
\* gets (it denies the push).  When the predicate ends the process, the
\* message of the fatal error is the line after the label and the last one:
\* no OK or KO is written for that label.
C16_CheckReportsInOrder ==
    /\ \A v \in Verdicts :
         LET l == PrevLabel(v)
         IN  /\ l > 0
             /\ stdio[l].ref = stdio[v].ref
             /\ stdio[l].commit = stdio[v].commit
             /\ \A j \in (l + 1)..(v - 1) : stdio[j].text = "error code"
             /\ Cardinality(Evaluations(l, v)) = 1
             /\ \A i \in Evaluations(l, v) : log[i].ref = stdio[l].ref
             /\ (stdio[v].text = "OK") =
                    (\A i \in FailedChecks : ~(i > stdio[l].at /\ i <= stdio[v].at))
             /\ stdio[v].text = "KO" =>
                    /\ v + 1 = Len(stdio)
                    /\ stdio[v + 1].text = "Push denied"
                    /\ outcome = "denied"
             /\ stdio[v].text = "OK" =>
                    (v < Len(stdio) => stdio[v + 1].text # "Push denied")
    /\ \A k \in StdioIdx :
         (stdio[k].text = "Failed to push" /\ Labels # {}) =>
             /\ k = Len(stdio)
             /\ stdio[k - 1].text = "label"
             /\ stdio[k - 1].at < stdio[k].at
             /\ pc = "exited"

\* C16 witness: one check was reported OK, the next one KO after the
\* failure detail of its command, and the push was denied.
C16_Witness ==
    /\ pc = "exited"
    /\ \E v \in Verdicts : stdio[v].text = "OK"
    /\ \E v \in Verdicts :
         /\ stdio[v].text = "KO"
         /\ stdio[v - 1].text = "error code"
         /\ stdio[v - 2].text = "label"

\* C17: a matching ref whose revision range is empty is a no-op: when the
\* loop of rust_hook enters such a ref the process does not end on it.
C17_EmptyRangeIsNoOp ==
    \A i \in LogIdx :
        (log[i].op = "ref" /\ refs[log[i].ref].commits = <<>>) =>
            /\ \A j \in LogIdx : log[j].op \in CheckOps => log[j].ref # log[i].ref
            /\ i < Len(log) => log[i + 1].op # "exit"

\* C18: when the status query of a revision succeeds with an empty output,
\* Commit.from_hash returns a Commit and the process does not end on it.
C18_EmptyStatusGivesCommit ==
    \A i \in LogIdx :
        ( /\ log[i].op = "diff-tree"
          /\ log[i].rc = 0
          /\ pending.hashes # <<>>
          /\ log[i].ref = lineIdx
          /\ log[i].commit = Len(pending.commits) + 1
          /\ DiffTree(Head(pending.hashes)) = <<>> ) =>
            ~(pc = "exited" /\ i = Len(log) - 1)

\* C19: when the tree export of a commit fails the process ends at once with
\* a nonzero status, the Commit is not marked materialized, and no format or
\* test command ever runs in the directory of the failed export: the
\* directory of every one of them was exported with success before.
C19_FailedExportAborts ==
    /\ \A i \in LogIdx :
         (log[i].op = "archive" /\ log[i].rc # 0) =>
             /\ i = Len(log) - 1
             /\ log[i + 1].op = "exit"
             /\ pc = "exited"
             /\ outcome = "fatal"
             /\ exitCode # 0
             /\ refs[log[i].ref].commits[log[i].commit]._code_basedir = 0
             /\ \A j \in LogIdx :
                    log[j].op \in {"rustfmt", "cargo test"} => log[j].dir # log[i].dir
    /\ \A j \in LogIdx :
         log[j].op \in {"rustfmt", "cargo test"} =>
             \E i \in 1..(j - 1) :
                 /\ log[i].op = "archive"
                 /\ log[i].rc = 0
                 /\ log[i].dir = log[j].dir
                 /\ log[i].ref = log[j].ref
                 /\ log[i].commit = log[j].commit

\* C19 witness: the formatter has run in an exported tree, then the export
\* of another commit failed.
C19_Witness ==
    /\ pc = "exited"
    /\ \E j \in LogIdx : log[j].op = "rustfmt"
    /\ \E i \in LogIdx : log[i].op = "archive" /\ log[i].rc # 0 /\ log[i].dir > 1

Terminal == pc = "exited" /\ outcome \in {"success", "denied", "fatal", "crash"}

RustfmtOf(r) == { i \in LogIdx : log[i].op = "rustfmt" /\ log[i].ref = r }

TestsOfCommit(r, c) == { i \in TestsOf(r) : log[i].commit = c }

\* C20: when every external command returns, the run reaches a terminal
\* state (success, denied, or a fatal end) and stays in it with no further
\* command or output; the formatter runs at most once per ref and the test
\* command at most once per commit of a ref.
C20_TerminatesWithoutRetry ==
    /\ <>Terminal
    /\ [][Terminal => (Terminal' /\ outcome' = outcome /\ log' = log /\ stdio' = stdio)]_vars
    /\ [](\A r \in 1..Len(refs) :
              /\ Cardinality(RustfmtOf(r)) <= 1
              /\ \A c \in 1..Len(refs[r].commits) : Cardinality(TestsOfCommit(r, c)) <= 1)
    /\ [](\A i \in LogIdx : log[i].op = "exit" => i = Len(log))

\* C20 witness: a run that tested two commits of a ref after the formatter
\* has reached the terminal state of success.
C20_Witness ==
    /\ Terminal
    /\ outcome = "success"
    /\ \E r \in 1..Len(refs) :
         /\ Cardinality(RustfmtOf(r)) = 1
         /\ Cardinality(TestsOf(r)) = 2

====
